---- MODULE Spec2Model ----
(***************************************************************************)
(* s3transfer/utils.py: SlidingWindowSemaphore.                            *)
(*                                                                         *)
(* The semaphore is one object shared by a set of threads.  Every method   *)
(* body runs with the condition's lock held, so a method call is one       *)
(* atomic step, except a blocking acquire, which gives the lock up inside  *)
(* Condition.wait() and goes on, with the lock again, once it is notified. *)
(***************************************************************************)
EXTENDS Integers, Sequences, FiniteSets, TLC

\* ---- bounds of the model ----
NumThreads == 2     \* threads sharing the semaphore
MaxCount == 2       \* the count given to __init__ is drawn from 1..MaxCount
MaxSeq == 2         \* acquires stop once a tag's next number reaches MaxSeq;
                    \* release is called with the numbers below MaxSeq

\* caps on what repeated or unissued releases could otherwise grow without end:
\* the length of one tag's pending-release list, and the count, which no step
\* raises further than one above the initial count
Iterations == 2
MaxFile == 3        \* the file under a ReadFileChunk has 0..MaxFile bytes
MaxCallbacks == 2   \* progress callbacks registered on a chunk: 0..MaxCallbacks
MaxPending == MaxCount

Tags == {"a", "b"}
Numbers == 0..(MaxSeq - 1)
NoTag == "-"

VARIABLES
    count,            \* self._count
    tag_sequences,    \* self._tag_sequences   dict tag -> next number
    lowest_sequence,  \* self._lowest_sequence dict tag -> lowest unreleased
    pending_release,  \* self._pending_release dict tag -> list, kept sorted descending
    pc,               \* thread -> "idle" | "waiting" (inside wait()) | "notified"
    wtag,             \* thread -> tag argument of its suspended acquire
    initial,          \* the count the semaphore was constructed with
    \* history of the calls, read by the properties only
    issued,           \* tag -> sequence of the numbers acquire returned, in order
    held,             \* <<tag, n>> returned by acquire, no successful release since
    released,         \* <<tag, n>> for which a release call returned normally
    paired,           \* every release call so far named a held number
    last,             \* the call the last step made, and how it ended
    \* the other programs of the module; each specification moves its own
    worker,           \* thread -> its loop in test_blocking_stress
    chunk,            \* a ReadFileChunk and the file under it
    io,               \* what the last ReadFileChunk call returned and delivered
    deferred          \* a DeferredOpenFile, its file and its last call

gate == <<count, tag_sequences, lowest_sequence, pending_release>>
hist == <<issued, held, released, paired>>
others == <<worker, chunk, io, deferred>>
vars == <<count, tag_sequences, lowest_sequence, pending_release, pc, wtag,
          initial, issued, held, released, paired, last, worker, chunk, io,
          deferred>>

\* the threads that exist
Threads == DOMAIN pc

\* ---- dict helpers ----
Get(d, k, default) == IF k \in DOMAIN d THEN d[k] ELSE default
Put(d, k, v) == [x \in (DOMAIN d) \cup {k} |-> IF x = k THEN v ELSE d[x]]
Range(q) == {q[i] : i \in 1..Len(q)}

Call(op, tag, seq, outcome, ret, freed, notifies) ==
    [op |-> op, tag |-> tag, seq |-> seq, outcome |-> outcome, ret |-> ret,
     freed |-> freed, notifies |-> notifies]

\* ---- __init__ ----
\* SlidingWindowSemaphore(c) shared by n threads
Constructed(c, n) ==
    /\ initial = c
    /\ count = initial
    /\ tag_sequences = <<>>
    /\ lowest_sequence = <<>>
    /\ pending_release = <<>>
    /\ pc = [t \in 1..n |-> "idle"]
    /\ wtag = [t \in 1..n |-> NoTag]
    /\ issued = [tag \in Tags |-> <<>>]
    /\ held = {}
    /\ released = {}
    /\ paired = TRUE
    /\ last = Call("init", NoTag, -1, "ok", -1, 0, 0)

NoWorkers == <<>>
NoChunk == <<>>
NoIO == <<>>
NoDeferred == <<>>

Init ==
    /\ \E c \in 1..MaxCount : Constructed(c, NumThreads)
    /\ worker = NoWorkers
    /\ chunk = NoChunk
    /\ io = NoIO
    /\ deferred = NoDeferred

\* ---- acquire ----
\* if self._count == 0 / while self._count == 0
NoneAvailableAtOne == count <= 1
NoneAvailable == count = 0

\* sequence_number = self._tag_sequences[tag]   (defaultdict(int))
SequenceNumberShared(tag) ==
    LET S == {tag_sequences[x] : x \in DOMAIN tag_sequences} IN
    IF S = {} THEN 0 ELSE CHOOSE n \in S : \A m \in S : m <= n
SequenceNumber(tag) == Get(tag_sequences, tag, 0)

\* the gate after the body of acquire below the wait loop
AcquiredNoIncrement(tag) ==
    LET sequence_number == SequenceNumber(tag) IN
    [tag_sequences |-> Put(tag_sequences, tag, sequence_number),
     lowest_sequence |-> IF sequence_number = 0
                         THEN Put(lowest_sequence, tag, sequence_number)
                         ELSE lowest_sequence,
     count |-> count - 1,
     ret |-> sequence_number]
AcquiredNoDecrementOnNewTag(tag) ==
    LET sequence_number == SequenceNumber(tag) IN
    [tag_sequences |-> Put(tag_sequences, tag, sequence_number + 1),
     lowest_sequence |-> IF sequence_number = 0
                         THEN Put(lowest_sequence, tag, sequence_number)
                         ELSE lowest_sequence,
     count |-> IF sequence_number = 0 THEN count ELSE count - 1,
     ret |-> sequence_number]
Acquired(tag) ==
    LET sequence_number == SequenceNumber(tag) IN
    [tag_sequences |-> Put(tag_sequences, tag, sequence_number + 1),
     lowest_sequence |-> IF sequence_number = 0
                         THEN Put(lowest_sequence, tag, sequence_number)
                         ELSE lowest_sequence,
     count |-> count - 1,
     ret |-> sequence_number]

\* raise NoResourcesAvailable: the gate as the raising call leaves it
RaiseAfterLookup(tag) ==
    /\ tag_sequences' = Put(tag_sequences, tag, SequenceNumber(tag))
    /\ UNCHANGED <<count, lowest_sequence, pending_release>>
RaiseNoResources(tag) ==
    UNCHANGED <<count, tag_sequences, lowest_sequence, pending_release>>

\* Suspended acquires on the tag will each take a number: keep room for them.
\* Callers that loop a fixed number of times bound the numbers themselves.
Budget(tag) ==
    \/ worker # NoWorkers
    \/ SequenceNumber(tag)
         + Cardinality({u \in Threads : pc[u] # "idle" /\ wtag[u] = tag}) < MaxSeq

\* A thread that is not suspended inside acquire can make a call.  Which of
\* them calls plays no part in a call that does not suspend.
SomeThreadRuns == \E t \in Threads : pc[t] = "idle"

\* lines 440-446: the number is issued and the call returns
Take(tag) ==
    LET a == Acquired(tag) IN
    /\ tag_sequences' = a.tag_sequences
    /\ lowest_sequence' = a.lowest_sequence
    /\ count' = a.count
    /\ UNCHANGED pending_release
    /\ issued' = [issued EXCEPT ![tag] = Append(@, a.ret)]
    /\ held' = held \cup {<<tag, a.ret>>}
    /\ UNCHANGED <<released, paired, initial>>
    /\ last' = Call("acquire", tag, -1, "ok", a.ret, 0, 0)

AcquireNonBlocking(tag) ==
    /\ SomeThreadRuns
    /\ IF NoneAvailable
       THEN /\ RaiseNoResources(tag)
            /\ UNCHANGED <<pc, wtag, initial, issued, held, released, paired>>
            /\ last' = Call("acquire", tag, -1, "NoResourcesAvailable", -1, 0, 0)
       ELSE /\ Budget(tag)
            /\ Take(tag)
            /\ UNCHANGED <<pc, wtag>>

AcquireBlocking(t, tag) ==
    /\ pc[t] = "idle"
    /\ Budget(tag)
    /\ IF NoneAvailable
       THEN /\ pc' = [pc EXCEPT ![t] = "waiting"]
            /\ wtag' = [wtag EXCEPT ![t] = tag]
            /\ UNCHANGED <<gate, initial, hist>>
            /\ last' = Call("acquire", tag, -1, "wait", -1, 0, 0)
       ELSE /\ Take(tag)
            /\ UNCHANGED <<pc, wtag>>

\* A notified thread gets the lock back inside wait() and tests the loop again.
ResumeWithoutTest(t) ==
    /\ pc[t] = "notified"
    /\ Take(wtag[t])
    /\ pc' = [pc EXCEPT ![t] = "idle"]
    /\ wtag' = [wtag EXCEPT ![t] = NoTag]
Resume(t) ==
    /\ pc[t] = "notified"
    /\ IF NoneAvailable
       THEN /\ pc' = [pc EXCEPT ![t] = "waiting"]
            /\ UNCHANGED <<gate, wtag, initial, hist>>
            /\ last' = Call("resume", NoTag, -1, "wait", -1, 0, 0)
       ELSE /\ Take(wtag[t])
            /\ pc' = [pc EXCEPT ![t] = "idle"]
            /\ wtag' = [wtag EXCEPT ![t] = NoTag]

\* Condition.wait() may return without a notify.
SpuriousWake(t) ==
    /\ pc[t] = "waiting"
    /\ pc' = [pc EXCEPT ![t] = "notified"]
    /\ UNCHANGED <<gate, wtag, initial, hist>>
    /\ last' = Call("wake", NoTag, -1, "ok", -1, 0, 0)

\* ---- release ----
\* if tag not in self._tag_sequences
KnownTag(tag) == tag \in DOMAIN tag_sequences

\* if self._lowest_sequence[tag] == sequence_number
IsLowestOrAbove(tag, s) == lowest_sequence[tag] <= s
IsLowest(tag, s) == lowest_sequence[tag] = s

\* elif self._lowest_sequence[tag] < sequence_number < max_sequence
IsQueueable(tag, s) == lowest_sequence[tag] < s /\ s < tag_sequences[tag]

\* list.sort(reverse=True), as an insertion sort
RECURSIVE InsertDescending(_, _)
InsertDescending(q, x) ==
    IF q = <<>> THEN <<x>>
    ELSE IF x >= Head(q) THEN <<x>> \o q
    ELSE <<Head(q)>> \o InsertDescending(Tail(q), x)
RECURSIVE SortReverse(_)
SortReverse(q) ==
    IF q = <<>> THEN <<>> ELSE InsertDescending(SortReverse(Tail(q)), Head(q))

\* self._pending_release.setdefault(tag, []).append(s); ...sort(reverse=True)
Enqueued(tag, s) == SortReverse(Append(Get(pending_release, tag, <<>>), s))

\* while queued: if lowest == queued[-1]: pop, lowest += 1, count += 1; else break
RECURSIVE DrainLosingUnits(_, _, _)
DrainLosingUnits(queued, lowest, cnt) ==
    IF queued # <<>> /\ lowest = queued[Len(queued)]
    THEN DrainLosingUnits(SubSeq(queued, 1, Len(queued) - 1), lowest + 1, cnt)
    ELSE [queued |-> queued, lowest |-> lowest, count |-> cnt]
RECURSIVE Drain(_, _, _)
Drain(queued, lowest, cnt) ==
    IF queued # <<>> /\ lowest = queued[Len(queued)]
    THEN Drain(SubSeq(queued, 1, Len(queued) - 1), lowest + 1, cnt + 1)
    ELSE [queued |-> queued, lowest |-> lowest, count |-> cnt]

\* self._condition.notify(): one thread inside wait(), if there is one, is woken
NotifyNobody == UNCHANGED pc
Notify ==
    IF \E w \in Threads : pc[w] = "waiting"
    THEN \E w \in Threads :
            /\ pc[w] = "waiting"
            /\ pc' = [pc EXCEPT ![w] = "notified"]
    ELSE UNCHANGED pc

\* the in-order branch, lines 458-470
ReleaseLowest(tag, s) ==
    LET d == Drain(Get(pending_release, tag, <<>>),
                   lowest_sequence[tag] + 1, count + 1) IN
    /\ d.count <= initial + 1
    /\ lowest_sequence' = [lowest_sequence EXCEPT ![tag] = d.lowest]
    /\ count' = d.count
    /\ pending_release' = IF tag \in DOMAIN pending_release
                          THEN [pending_release EXCEPT ![tag] = d.queued]
                          ELSE pending_release
    /\ Notify
    /\ UNCHANGED tag_sequences
    /\ last' = Call("release", tag, s, "ok", -1, d.count - count, 1)

\* the out-of-order branch, lines 472-476
QueueReleaseOneList(tag, s) ==
    /\ Len(Get(pending_release, tag, <<>>)) < MaxPending
    /\ pending_release' =
          [x \in DOMAIN tag_sequences |->
              SortReverse(Append(Get(pending_release, x, <<>>), s))]
    /\ UNCHANGED <<count, tag_sequences, lowest_sequence, pc>>
    /\ last' = Call("release", tag, s, "ok", -1, 0, 0)
QueueRelease(tag, s) ==
    /\ Len(Get(pending_release, tag, <<>>)) < MaxPending
    /\ pending_release' = Put(pending_release, tag, Enqueued(tag, s))
    /\ UNCHANGED <<count, tag_sequences, lowest_sequence, pc>>
    /\ last' = Call("release", tag, s, "ok", -1, 0, 0)

\* raise ValueError (or the KeyError of a dict lookup)
Rejected(tag, s, error) ==
    /\ UNCHANGED <<gate, pc>>
    /\ last' = Call("release", tag, s, error, -1, 0, 0)

Release(tag, s) ==
    /\ SomeThreadRuns
    /\ IF ~KnownTag(tag) THEN Rejected(tag, s, "UnknownTag")
       ELSE IF tag \notin DOMAIN lowest_sequence THEN Rejected(tag, s, "KeyError")
       ELSE IF IsLowest(tag, s) THEN ReleaseLowest(tag, s)
       ELSE IF IsQueueable(tag, s) THEN QueueRelease(tag, s)
       ELSE Rejected(tag, s, "UnknownSequence")
    /\ released' = IF last'.outcome = "ok" THEN released \cup {<<tag, s>>} ELSE released
    /\ held' = IF last'.outcome = "ok" THEN held \ {<<tag, s>>} ELSE held
    /\ paired' = (paired /\ <<tag, s>> \in held)
    /\ UNCHANGED <<wtag, initial, issued>>

Next ==
    \/ \E tag \in Tags : AcquireNonBlocking(tag) /\ UNCHANGED others
    \/ \E t \in Threads, tag \in Tags : AcquireBlocking(t, tag) /\ UNCHANGED others
    \/ \E t \in Threads : Resume(t) /\ UNCHANGED others
    \/ \E t \in Threads : SpuriousWake(t) /\ UNCHANGED others
    \/ \E tag \in Tags, s \in Numbers : Release(tag, s) /\ UNCHANGED others

Spec == Init /\ [][Next]_vars

\* The same semaphore with one thread more than the largest count, under a fair
\* scheduler: a thread that wait() has handed the wake-up to gets the lock in
\* the end.  Nothing obliges the callers to make further calls.
FairInit ==
    /\ \E c \in 1..MaxCount : Constructed(c, MaxCount + 1)
    /\ worker = NoWorkers
    /\ chunk = NoChunk
    /\ io = NoIO
    /\ deferred = NoDeferred
FairSpec ==
    /\ FairInit
    /\ [][Next]_vars
    /\ \A t \in 1..(MaxCount + 1) : WF_vars(Resume(t) /\ UNCHANGED others)

\* One unit and more threads than the semaphores above have: several threads
\* can be suspended, and woken, while another one releases.
CrowdInit ==
    /\ Constructed(1, NumThreads + 1)
    /\ worker = NoWorkers
    /\ chunk = NoChunk
    /\ io = NoIO
    /\ deferred = NoDeferred
CrowdSpec == CrowdInit /\ [][Next]_vars

\* ---- test_blocking_stress: more threads than units, each looping
\*      num = sem.acquire('a', blocking=True); sem.release('a', num)
StressThreads == MaxCount + 1
StressTag == "a"
Looping == [todo |-> Iterations, num |-> -1]

StressInit ==
    /\ \E c \in 1..MaxCount : Constructed(c, StressThreads)
    /\ worker = [t \in 1..StressThreads |-> Looping]
    /\ chunk = NoChunk
    /\ io = NoIO
    /\ deferred = NoDeferred

\* num = sem.acquire('a', blocking=True): returns at once or suspends
StressAcquire(t) ==
    /\ worker[t].todo > 0
    /\ worker[t].num = -1
    /\ AcquireBlocking(t, StressTag)
    /\ worker' = IF pc'[t] = "idle"
                 THEN [worker EXCEPT ![t].num = last'.ret]
                 ELSE worker
    /\ UNCHANGED <<chunk, io, deferred>>

\* the suspended acquire, woken by notify(), goes round its loop; when it
\* returns, num is set
StressResume(t) ==
    /\ Resume(t)
    /\ worker' = IF pc'[t] = "idle"
                 THEN [worker EXCEPT ![t].num = last'.ret]
                 ELSE worker
    /\ UNCHANGED <<chunk, io, deferred>>

\* sem.release('a', num), the end of one iteration
StressRelease(t) ==
    /\ pc[t] = "idle"
    /\ worker[t].num # -1
    /\ Release(StressTag, worker[t].num)
    /\ worker' = [worker EXCEPT ![t] = [@ EXCEPT !.todo = @ - 1, !.num = -1]]
    /\ UNCHANGED <<chunk, io, deferred>>

StressNext ==
    \/ \E t \in 1..StressThreads : StressAcquire(t)
    \/ \E t \in 1..StressThreads : StressResume(t)
    \/ \E t \in 1..StressThreads : StressRelease(t)

\* one pass of a thread through its loop body: at most one of the three is
\* possible at a time
StressStep(t) == StressAcquire(t) \/ StressResume(t) \/ StressRelease(t)

\* every started thread runs: a step it can take is taken in the end
StressSpec ==
    /\ StressInit
    /\ [][StressNext]_vars
    /\ \A t \in 1..StressThreads : WF_vars(StressStep(t))

\* ---- invoke_progress_callbacks and ReadFileChunk ----
\* A byte of the file is named by its absolute offset.  None is the empty
\* sequence, an amount n is <<n>>.
None == <<>>
Min(a, b) == IF a <= b THEN a ELSE b
Amounts == {None} \cup {<<n>> : n \in (-1)..MaxFile}
Offsets == (-1)..MaxFile

\* if bytes_transferred: for callback in callbacks: callback(bytes_transferred)
\* The result is the list of the calls made, <<callback, bytes_transferred>>.
InvokeWhenPositive(callbacks, bytes_transferred) ==
    IF bytes_transferred > 0
    THEN [i \in 1..callbacks |-> <<i, bytes_transferred>>]
    ELSE <<>>
invoke_progress_callbacks(callbacks, bytes_transferred) ==
    IF bytes_transferred # 0
    THEN [i \in 1..callbacks |-> <<i, bytes_transferred>>]
    ELSE <<>>

\* fileobj.read(n) of a file of `full` bytes at position pos: a negative n reads
\* to the end of the file, and nothing is read at or past the end
FileRead(full, pos, n) ==
    LET avail == IF pos >= full THEN 0 ELSE full - pos
        k == IF n < 0 THEN avail ELSE Min(n, avail)
    IN  [i \in 1..k |-> pos + i - 1]

\* _calculate_file_size
CalculateFileSizeNoCap(requested_size, start_byte, actual_file_size) ==
    requested_size
calculate_file_size(requested_size, start_byte, actual_file_size) ==
    LET max_chunk_size == actual_file_size - start_byte IN
    Min(max_chunk_size, requested_size)

\* __init__, on a file object already moved to start_byte (from_filename)
NewChunk(full, start_byte, chunk_size, callbacks, enable_callbacks) ==
    [full |-> full,
     pos |-> start_byte,
     start_byte |-> start_byte,
     size |-> calculate_file_size(chunk_size, start_byte, full),
     amount_read |-> 0,
     callbacks |-> callbacks,
     callbacks_enabled |-> enable_callbacks]

tell(c) == c.amount_read
len(c) == c.size

\* read: the chunk after the call, the data returned, the callbacks called
AmountToReadUncapped(c, amount) ==
    IF amount = None THEN c.size - c.amount_read ELSE amount[1]
AmountToRead(c, amount) ==
    IF amount = None
    THEN c.size - c.amount_read
    ELSE Min(c.size - c.amount_read, amount[1])
ReadCountsWhenReporting(c, amount) ==
    LET data == FileRead(c.full, c.pos, AmountToRead(c, amount)) IN
    [chunk |-> [c EXCEPT !.pos = @ + Len(data),
                         !.amount_read = IF c.callbacks_enabled
                                         THEN @ + Len(data) ELSE @],
     data |-> data,
     log |-> IF c.callbacks_enabled
             THEN invoke_progress_callbacks(c.callbacks, Len(data))
             ELSE <<>>]
read(c, amount) ==
    LET data == FileRead(c.full, c.pos, AmountToRead(c, amount)) IN
    [chunk |-> [c EXCEPT !.pos = @ + Len(data),
                         !.amount_read = @ + Len(data)],
     data |-> data,
     log |-> IF c.callbacks_enabled
             THEN invoke_progress_callbacks(c.callbacks, Len(data))
             ELSE <<>>]

\* seek: the chunk after the call and the callbacks called
SeekKeepsFilePosition(c, where) ==
    [chunk |-> [c EXCEPT !.amount_read = where],
     data |-> <<>>,
     log |-> IF c.callbacks_enabled
             THEN invoke_progress_callbacks(c.callbacks, where - c.amount_read)
             ELSE <<>>]
SeekReportsOffset(c, where) ==
    [chunk |-> [c EXCEPT !.pos = c.start_byte + where, !.amount_read = where],
     data |-> <<>>,
     log |-> IF c.callbacks_enabled
             THEN invoke_progress_callbacks(c.callbacks, where)
             ELSE <<>>]
SeekUnsigned(c, where) ==
    [chunk |-> [c EXCEPT !.pos = c.start_byte + where, !.amount_read = where],
     data |-> <<>>,
     log |-> IF c.callbacks_enabled
             THEN invoke_progress_callbacks(c.callbacks,
                     IF where >= c.amount_read THEN where - c.amount_read
                                               ELSE c.amount_read - where)
             ELSE <<>>]
seek(c, where) ==
    [chunk |-> [c EXCEPT !.pos = c.start_byte + where, !.amount_read = where],
     data |-> <<>>,
     log |-> IF c.callbacks_enabled
             THEN invoke_progress_callbacks(c.callbacks, where - c.amount_read)
             ELSE <<>>]

\* what the callbacks of the chunk have been given in all, after one more call
Delivered(sums, log) ==
    [i \in DOMAIN sums |-> IF i \in DOMAIN log THEN sums[i] + log[i][2] ELSE sums[i]]

\* the record of the calls, read by the properties only:
\*   op, log  the last call and the callbacks it called
\*   sums     what each callback of the chunk was given in all, kept while
\*            the callbacks have been enabled since construction
\*   always   the callbacks have been enabled since construction
\*   out      the data returned so far, while only read was called, with or
\*            without an amount of bytes
Called(op, counted, r) ==
    [io EXCEPT !.op = op,
               !.log = r.log,
               !.sums = IF io.always THEN Delivered(io.sums, r.log) ELSE io.sums,
               !.reads_only = io.reads_only /\ counted,
               !.out = IF io.reads_only /\ counted THEN io.out \o r.data
                                                   ELSE <<>>]

ChunkInit ==
    /\ Constructed(1, 0)
    /\ worker = NoWorkers
    /\ deferred = NoDeferred
    /\ \E full \in 0..MaxFile, chunk_size \in 0..MaxFile,
          callbacks \in 0..MaxCallbacks, enable_callbacks \in BOOLEAN :
         \E start_byte \in 0..full :
            /\ chunk = NewChunk(full, start_byte, chunk_size, callbacks,
                                enable_callbacks)
            /\ io = [op |-> "init",
                     chunk_size |-> chunk_size,
                     log |-> <<>>,
                     sums |-> [i \in 1..callbacks |-> 0],
                     reads_only |-> TRUE, out |-> <<>>,
                     always |-> enable_callbacks]

\* A length below -1 is refused by the file objects of Python 3, before
\* anything is changed, and reads to the end of the file with those of Python 2.
Read(amount) ==
    \/ LET r == read(chunk, amount) IN
       /\ chunk' = r.chunk
       /\ io' = Called("read", amount = None \/ amount[1] >= 0, r)
    \/ /\ AmountToRead(chunk, amount) < -1
       /\ io' = [io EXCEPT !.op = "read raises", !.log = <<>>,
                           !.reads_only = FALSE, !.out = <<>>]
       /\ UNCHANGED chunk

\* fileobj.seek raises on a negative position, before anything is changed
Seek(where) ==
    IF chunk.start_byte + where < 0
    THEN /\ io' = [io EXCEPT !.op = "seek raises", !.log = <<>>,
                             !.reads_only = FALSE, !.out = <<>>]
         /\ UNCHANGED chunk
    ELSE LET r == seek(chunk, where) IN
         /\ chunk' = r.chunk
         /\ io' = Called("seek", FALSE, r)

EnableCallback ==
    /\ chunk' = [chunk EXCEPT !.callbacks_enabled = TRUE]
    /\ io' = [io EXCEPT !.op = "enable_callback", !.log = <<>>]

DisableCallback ==
    /\ chunk' = [chunk EXCEPT !.callbacks_enabled = FALSE]
    /\ io' = [io EXCEPT !.op = "disable_callback", !.log = <<>>,
                        !.always = FALSE,
                        !.sums = [i \in DOMAIN io.sums |-> 0]]

sem == <<gate, pc, wtag, initial, hist, last, worker>>

ChunkNext ==
    \/ \E amount \in Amounts : Read(amount) /\ UNCHANGED <<sem, deferred>>
    \/ \E where \in Offsets : Seek(where) /\ UNCHANGED <<sem, deferred>>
    \/ EnableCallback /\ UNCHANGED <<sem, deferred>>
    \/ DisableCallback /\ UNCHANGED <<sem, deferred>>

ChunkSpec == ChunkInit /\ [][ChunkNext]_vars

\* ---- DeferredOpenFile ----
\* fileobj is "None" until OPEN_METHOD is called, "open" afterwards and "closed"
\* once close() was called on it; close leaves self._fileobj in place.
\* OPEN_METHOD is taken to succeed: the file exists.
\*   opens    the calls of OPEN_METHOD so far
\*   op       the last call, ret what tell() or len(read()) gave it, from the
\*            position its read started at
OpenWithoutSeek(d) ==
    IF d.fileobj = "None"
    THEN [d EXCEPT !.fileobj = "open", !.pos = 0, !.opens = @ + 1]
    ELSE d
ReopenWhenClosed(d) ==
    IF d.fileobj # "open"
    THEN [d EXCEPT !.fileobj = "open", !.pos = d.start_byte, !.opens = @ + 1]
    ELSE d
open_if_needed(d) ==
    IF d.fileobj = "None"
    THEN [d EXCEPT !.fileobj = "open", !.pos = d.start_byte, !.opens = @ + 1]
    ELSE d

TellFromZero(d) == IF d.fileobj = "None" THEN 0 ELSE d.pos
deferred_tell(d) == IF d.fileobj = "None" THEN d.start_byte ELSE d.pos

Ended(d, op, ret, from) == [d EXCEPT !.op = op, !.ret = ret, !.from = from]

DeferredInit ==
    /\ Constructed(1, 0)
    /\ worker = NoWorkers
    /\ chunk = NoChunk
    /\ io = NoIO
    /\ \E full \in 0..MaxFile, start_byte \in 0..MaxFile :
          deferred = [full |-> full, start_byte |-> start_byte,
                      fileobj |-> "None", pos |-> 0, opens |-> 0,
                      op |-> "init", ret |-> -1, from |-> -1]

\* read: a closed file object raises ValueError
DeferredRead(amount) ==
    LET o == open_if_needed(deferred)
        data == FileRead(o.full, o.pos, IF amount = None THEN -1 ELSE amount[1])
    IN  deferred' = IF o.fileobj = "closed"
                    THEN Ended(o, "read raises", -1, -1)
                    ELSE Ended([o EXCEPT !.pos = @ + Len(data)],
                               "read", Len(data), o.pos)

\* seek: a closed file object, and a negative position, raise
DeferredSeek(where) ==
    LET o == open_if_needed(deferred) IN
    deferred' = IF o.fileobj = "closed" \/ where < 0
                THEN Ended(o, "seek raises", -1, -1)
                ELSE Ended([o EXCEPT !.pos = where], "seek", -1, -1)

DeferredTell ==
    deferred' = IF deferred.fileobj = "closed"
                THEN Ended(deferred, "tell raises", -1, -1)
                ELSE Ended(deferred, "tell", deferred_tell(deferred), -1)

closed(d) == IF d.fileobj = "None" THEN d ELSE [d EXCEPT !.fileobj = "closed"]
DeferredClose == deferred' = Ended(closed(deferred), "close", -1, -1)
DeferredEnter == deferred' = Ended(open_if_needed(deferred), "enter", -1, -1)
DeferredExit == deferred' = Ended(closed(deferred), "exit", -1, -1)

DeferredNext ==
    \/ \E amount \in Amounts : DeferredRead(amount) /\ UNCHANGED <<sem, chunk, io>>
    \/ \E where \in Offsets : DeferredSeek(where) /\ UNCHANGED <<sem, chunk, io>>
    \/ DeferredTell /\ UNCHANGED <<sem, chunk, io>>
    \/ DeferredClose /\ UNCHANGED <<sem, chunk, io>>
    \/ DeferredEnter /\ UNCHANGED <<sem, chunk, io>>
    \/ DeferredExit /\ UNCHANGED <<sem, chunk, io>>

DeferredSpec == DeferredInit /\ [][DeferredNext]_vars

\* ReadFileChunk over a DeferredOpenFile: the chunk's file object is the lazy
\* handle, whose position is kept in deferred.pos and mirrored in chunk.pos.

\* ReadFileChunk.__init__(fileobj, chunk_size, full_file_size): the only call
\* on the file object is tell()
OverOpenedFile(d, chunk_size, callbacks, enable_callbacks) ==
    LET o == open_if_needed(d) IN
    [chunk |-> NewChunk(o.full, o.pos, chunk_size, callbacks, enable_callbacks),
     fileobj |-> Ended(o, "tell", o.pos, -1)]
Over(d, chunk_size, callbacks, enable_callbacks) ==
    [chunk |-> NewChunk(d.full, deferred_tell(d), chunk_size, callbacks,
                        enable_callbacks),
     fileobj |-> Ended(d, "tell", deferred_tell(d), -1)]

\* the chunk as its methods find it when the file object is at d.pos
OnFile(c, d) == [c EXCEPT !.pos = d.pos]
Raised(op) ==
    [io EXCEPT !.op = op, !.log = <<>>, !.reads_only = FALSE, !.out = <<>>]

LazyInit ==
    /\ Constructed(1, 0)
    /\ worker = NoWorkers
    /\ chunk = NoChunk
    /\ io = NoIO
    /\ \E full \in 0..MaxFile, start_byte \in 0..MaxFile :
          deferred = [full |-> full, start_byte |-> start_byte,
                      fileobj |-> "None", pos |-> 0, opens |-> 0,
                      op |-> "init", ret |-> -1, from |-> -1]

Wrap(chunk_size, callbacks, enable_callbacks) ==
    /\ chunk = NoChunk
    /\ LET w == Over(deferred, chunk_size, callbacks, enable_callbacks) IN
       /\ chunk' = w.chunk
       /\ deferred' = w.fileobj
    /\ io' = [op |-> "init",
              chunk_size |-> chunk_size,
              log |-> <<>>,
              sums |-> [i \in 1..callbacks |-> 0],
              reads_only |-> TRUE, out |-> <<>>,
              always |-> enable_callbacks]

\* ReadFileChunk.read: DeferredOpenFile.read opens the file if needed, then a
\* closed file object raises, and so does a length below -1 on Python 3
LazyRead(amount) ==
    /\ chunk # NoChunk
    /\ LET o == open_if_needed(deferred)
           r == read(OnFile(chunk, o), amount)
       IN  \/ /\ o.fileobj = "open"
              /\ chunk' = r.chunk
              /\ deferred' = Ended([o EXCEPT !.pos = r.chunk.pos],
                                   "read", Len(r.data), o.pos)
              /\ io' = Called("read", amount = None \/ amount[1] >= 0, r)
           \/ /\ o.fileobj = "closed" \/ AmountToRead(chunk, amount) < -1
              /\ chunk' = OnFile(chunk, o)
              /\ deferred' = Ended(o, "read raises", -1, -1)
              /\ io' = Raised("read raises")

\* ReadFileChunk.seek: DeferredOpenFile.seek opens the file if needed, then a
\* closed file object and a negative position raise, before the callbacks
LazySeek(where) ==
    /\ chunk # NoChunk
    /\ LET o == open_if_needed(deferred)
           r == seek(OnFile(chunk, o), where)
       IN  IF o.fileobj = "closed" \/ chunk.start_byte + where < 0
           THEN /\ chunk' = OnFile(chunk, o)
                /\ deferred' = Ended(o, "seek raises", -1, -1)
                /\ io' = Raised("seek raises")
           ELSE /\ chunk' = r.chunk
                /\ deferred' = Ended([o EXCEPT !.pos = r.chunk.pos],
                                     "seek", -1, -1)
                /\ io' = Called("seek", FALSE, r)

\* ReadFileChunk.close and __exit__
LazyClose ==
    /\ chunk # NoChunk
    /\ deferred' = Ended(closed(deferred), "close", -1, -1)
    /\ io' = [io EXCEPT !.op = "close", !.log = <<>>]
    /\ UNCHANGED chunk

\* ReadFileChunk.tell, __len__, __enter__ and __iter__ call nothing
LazyTell ==
    /\ chunk # NoChunk
    /\ io' = [io EXCEPT !.op = "tell", !.log = <<>>]
    /\ UNCHANGED <<chunk, deferred>>

LazyNext ==
    \/ \E chunk_size \in 0..MaxFile, callbacks \in 0..MaxCallbacks,
          enable_callbacks \in BOOLEAN :
          Wrap(chunk_size, callbacks, enable_callbacks) /\ UNCHANGED sem
    \/ \E amount \in Amounts : LazyRead(amount) /\ UNCHANGED sem
    \/ \E where \in Offsets : LazySeek(where) /\ UNCHANGED sem
    \/ LazyClose /\ UNCHANGED sem
    \/ LazyTell /\ UNCHANGED sem
    \/ chunk # NoChunk /\ EnableCallback /\ UNCHANGED <<sem, deferred>>
    \/ chunk # NoChunk /\ DisableCallback /\ UNCHANGED <<sem, deferred>>

LazySpec == LazyInit /\ [][LazyNext]_vars

\* ---- properties ----
RECURSIVE SumOver(_, _)
SumOver(S, f) ==
    IF S = {} THEN 0
    ELSE LET x == CHOOSE y \in S : TRUE IN f[x] + SumOver(S \ {x}, f)

\* the numbers of the tag's pending-release list contiguous with s: the longest
\* run s+1, s+2, ..., s+k
RECURSIVE RunAfter(_, _)
RunAfter(S, s) == IF (s + 1) \in S THEN 1 + RunAfter(S, s + 1) ELSE 0

Pending(tag) == Get(pending_release, tag, <<>>)
IsRelease(c, tag, s) == c.op = "release" /\ c.tag = tag /\ c.seq = s

\* C1: for every tag the successful acquires return 0, 1, 2, ... in order, with
\* no gap and no repeat, whatever else is interleaved; the acquire that follows
\* N successful ones on the tag returns N.
C1_MonotonicSequencing ==
    /\ \A tag \in Tags : \A i \in 1..Len(issued[tag]) : issued[tag][i] = i - 1
    /\ (last.op = "acquire" /\ last.outcome = "ok")
          => last.ret = Len(issued[last.tag]) - 1
\* an acquire on a fully drained tag returned a fresh number, the other tag in use
C1_Witness ==
    /\ last.op = "acquire" /\ last.outcome = "ok" /\ last.ret >= 1
    /\ lowest_sequence[last.tag] = last.ret
    /\ \E other \in Tags \ {last.tag} : issued[other] # <<>>

\* C2: a release of a number strictly between the tag's lowest unreleased number
\* and its next number leaves the count and the tag's lowest number unchanged,
\* and a non-blocking acquire that failed before it (count 0) still fails after.
C2_OutOfOrderReleaseFreesNothing ==
    [][\A tag \in Tags, s \in Numbers :
          (/\ IsRelease(last', tag, s)
           /\ tag \in DOMAIN tag_sequences
           /\ lowest_sequence[tag] < s /\ s < tag_sequences[tag])
          => /\ count' = count
             /\ lowest_sequence'[tag] = lowest_sequence[tag]
             /\ (count = 0 => count' = 0)]_vars
\* a non-minimum number was released and queued while the count was 0
C2_Witness ==
    /\ last.op = "release" /\ last.outcome = "ok" /\ last.freed = 0
    /\ count = 0
    /\ last.seq \in Range(Pending(last.tag))
    /\ lowest_sequence[last.tag] < last.seq

\* C3 (as claimed): a release of the tag's lowest unreleased number s, s held,
\* raises the count by 1 + k, k the length of the run s+1..s+k of queued numbers,
\* leaves lowest = s + k + 1, removes the k numbers from the pending list and
\* keeps the queued numbers beyond the run.
C3_CascadeFreesRun ==
    [][\A tag \in Tags, s \in Numbers :
          (/\ IsRelease(last', tag, s)
           /\ tag \in DOMAIN tag_sequences
           /\ lowest_sequence[tag] = s
           /\ <<tag, s>> \in held)
          => LET k == RunAfter(Range(Pending(tag)), s) IN
             /\ count' = count + 1 + k
             /\ lowest_sequence'[tag] = s + k + 1
             /\ \A n \in (s + 1)..(s + k) : n \notin Range(Pending(tag)')
             /\ \A n \in Range(Pending(tag)) : n > s + k => n \in Range(Pending(tag)')]_vars

\* C4: when every release call so far named a number that was issued and not yet
\* released, and no issued number is left unreleased, the count is the initial
\* count and every pending-release list is empty.
C4_Conservation ==
    (paired /\ held = {})
      => /\ count = initial
         /\ \A tag \in DOMAIN pending_release : pending_release[tag] = <<>>
\* the last number came back through a cascade over an out-of-order release
C4_Witness ==
    /\ paired /\ held = {}
    /\ last.op = "release" /\ last.freed >= 2

\* C5 (as claimed): a release of a number that a release call already accepted
\* raises the invalid-sequence error and changes neither count nor pending lists.
C5_NoDoubleRelease ==
    [][\A tag \in Tags, s \in Numbers :
          (IsRelease(last', tag, s) /\ <<tag, s>> \in released)
          => /\ last'.outcome = "UnknownSequence"
             /\ count' = count
             /\ pending_release' = pending_release]_vars

\* C6 (as claimed): on a known tag, a release of a number outside
\* [lowest unreleased, next) raises the invalid-sequence error.
C6_OutsideWindowRejected ==
    [][\A tag \in Tags, s \in Numbers :
          (/\ IsRelease(last', tag, s)
           /\ tag \in DOMAIN tag_sequences
           /\ (s < lowest_sequence[tag] \/ s >= tag_sequences[tag]))
          => last'.outcome = "UnknownSequence"]_vars

\* C7: a non-blocking acquire at count 0 raises NoResourcesAvailable, suspends
\* no thread and leaves the gate as it was; at a count above 0 it succeeds.
C7_NonBlockingAcquire ==
    [][\A tag \in Tags :
          (last'.op = "acquire" /\ last'.tag = tag /\ AcquireNonBlocking(tag))
          => IF count = 0
             THEN /\ last'.outcome = "NoResourcesAvailable"
                  /\ UNCHANGED <<count, tag_sequences, lowest_sequence,
                                 pending_release, pc, wtag>>
             ELSE /\ last'.outcome = "ok"
                  /\ last'.ret = Get(tag_sequences, tag, 0)
                  /\ count' = count - 1]_vars
\* a non-blocking acquire was refused while numbers were outstanding
C7_Witness ==
    /\ last.op = "acquire" /\ last.outcome = "NoResourcesAvailable"
    /\ count = 0
    /\ held # {}

\* C8: a release on a tag no acquire has succeeded on raises the unknown-tag
\* error and changes nothing; a tag is known only once an acquire on it has
\* succeeded, so refused acquires leave it unknown.
C8_UnknownTag ==
    [][/\ \A tag \in Tags, s \in Numbers :
             (IsRelease(last', tag, s) /\ issued[tag] = <<>>)
             => /\ last'.outcome = "UnknownTag"
                /\ UNCHANGED <<count, tag_sequences, lowest_sequence,
                               pending_release, pc, wtag>>
       /\ \A tag \in Tags :
             tag \in DOMAIN tag_sequences' => issued'[tag] # <<>>]_vars
\* a release on an unknown tag was rejected while the count was exhausted, so
\* every acquire tried on that tag so far without blocking was refused
C8_Witness ==
    /\ last.op = "release" /\ last.outcome = "UnknownTag"
    /\ count = 0
    /\ last.tag \notin DOMAIN tag_sequences

\* C9 (as claimed): the numbers issued by acquire and not passed to a successful
\* release since are at most the initial count.
C9_CapacityCeiling == Cardinality(held) <= initial

\* C10: the sum over the known tags of (next number - lowest unreleased number)
\* is the initial count minus the current count.
C10_Accounting ==
    SumOver(DOMAIN tag_sequences,
            [tag \in DOMAIN tag_sequences |->
                tag_sequences[tag] - lowest_sequence[tag]])
      = initial - count
\* both tags known, a release has freed a unit, numbers still outstanding
C10_Witness ==
    /\ last.op = "release" /\ last.freed >= 1
    /\ count < initial
    /\ DOMAIN tag_sequences = Tags

Suspended(t) == pc[t] \in {"waiting", "notified"}

\* C11 (as claimed): for every known tag, lowest unreleased <= next, and every
\* number issued and not yet released lies in [lowest unreleased, next).
C11_Window ==
    \A tag \in DOMAIN tag_sequences :
        /\ lowest_sequence[tag] <= tag_sequences[tag]
        /\ \A n \in Numbers \cup {MaxSeq} :
              <<tag, n>> \in held
              => lowest_sequence[tag] <= n /\ n < tag_sequences[tag]

\* the parts of C12: a suspended acquire returns only at a count above 0, with
\* the tag's next number, and takes one unit
C12_ReturnsWithUnit ==
    \A t \in Threads :
        (Suspended(t) /\ pc'[t] = "idle")
        => /\ count > 0
           /\ count' = count - 1
           /\ last'.op = "acquire" /\ last'.outcome = "ok"
           /\ last'.tag = wtag[t]
           /\ last'.ret = Get(tag_sequences, wtag[t], 0)
\* a release of a non-minimum outstanding number wakes and unblocks nobody
C12_OutOfOrderWakesNobody ==
    \A tag \in Tags, s \in Numbers :
        (/\ IsRelease(last', tag, s)
         /\ tag \in DOMAIN tag_sequences
         /\ lowest_sequence[tag] < s /\ s < tag_sequences[tag])
        => pc' = pc
\* the count, 0 while the thread is kept waiting, rises only by a release of a
\* tag's minimum outstanding number
C12_RaisedByMinimumOnly ==
    count' > count
    => \E tag \in Tags, s \in Numbers :
          /\ IsRelease(last', tag, s)
          /\ <<tag, s>> \in held
          /\ \A n \in Numbers : <<tag, n>> \in held => s <= n

\* C12 (as claimed): a blocking acquire made at count 0 does not return while
\* the count stays 0; a release of a non-minimum outstanding number does not
\* unblock it; it returns only after a release of a tag's minimum outstanding
\* number has raised the count, and then returns the tag's next number and
\* takes one unit.
C12_BlockingHandoff ==
    [][/\ C12_ReturnsWithUnit
       /\ C12_OutOfOrderWakesNobody
       /\ C12_RaisedByMinimumOnly]_vars
C12_SoundParts == [][C12_ReturnsWithUnit /\ C12_OutOfOrderWakesNobody]_vars

\* C13 (as claimed): under fair scheduling, whenever a thread is suspended in a
\* blocking acquire and the count is above 0, suspended threads go on returning
\* from acquire, with no further release, until the count is 0 or nobody is
\* suspended.
C13_NoLostWakeup ==
    []((count > 0 /\ \E t \in Threads : Suspended(t))
         => <>(count = 0 \/ \A t \in Threads : ~Suspended(t)))

\* C15: a non-blocking acquire on any tag succeeds exactly when the count is
\* above 0, whichever tags hold the outstanding units, and it returns that
\* tag's own next number and moves no other tag's numbers.
C15_SharedPool ==
    [][\A tag \in Tags :
          (last'.op = "acquire" /\ last'.tag = tag /\ AcquireNonBlocking(tag))
          => /\ (last'.outcome = "ok") <=> (count > 0)
             /\ (last'.outcome = "ok")
                => /\ last'.ret = Get(tag_sequences, tag, 0)
                   /\ \A o \in Tags \ {tag} :
                         /\ Get(tag_sequences', o, 0) = Get(tag_sequences, o, 0)
                         /\ Get(lowest_sequence', o, 0) = Get(lowest_sequence, o, 0)]_vars
\* the only unit, given back in order by one tag, is now held by the other tag
C15_Witness ==
    /\ last.op = "acquire" /\ last.outcome = "ok"
    /\ count = 0 /\ Cardinality(held) = initial
    /\ \A h \in held : h[1] = last.tag
    /\ \E o \in (DOMAIN tag_sequences) \ {last.tag} :
          /\ lowest_sequence[o] = tag_sequences[o]
          /\ <<o, 0>> \in released

StressDone ==
    /\ worker # NoWorkers
    /\ \A t \in Threads : worker[t].todo = 0 /\ worker[t].num = -1 /\ pc[t] = "idle"

\* C14: with more looping threads than units, every thread completes all its
\* iterations of acquire(blocking)/release, nobody is left suspended, and at
\* the end the count is the initial count again.
C14_StressTerminates ==
    /\ <>StressDone
    /\ [](StressDone => count = initial /\ held = {} /\ paired)
\* all loops of more threads than units are over and every number was issued
C14_Witness ==
    /\ StressDone
    /\ count = initial
    /\ Cardinality(Threads) > initial
    /\ Len(issued[StressTag]) = StressThreads * Iterations
    /\ Cardinality(released) = StressThreads * Iterations

\* ---- ReadFileChunk ----
\* the bytes of the window, by absolute offset
Window(c) == [i \in 1..c.size |-> c.start_byte + i - 1]
CountedAmounts == {amount \in Amounts : amount = None \/ amount[1] >= 0}
\* the calls one callback list is expected to see for a byte count
Expected(callbacks, n) ==
    IF n = 0 THEN <<>> ELSE [i \in 1..callbacks |-> <<i, n>>]

C16_Contents ==
    /\ len(chunk) = Min(io.chunk_size, chunk.full - chunk.start_byte)
    /\ io.reads_only
       => /\ tell(chunk) <= len(chunk)
          /\ io.out = SubSeq(Window(chunk), 1, tell(chunk))
C16_Read ==
    /\ len(chunk') = len(chunk)
    /\ \A amount \in CountedAmounts :
          (io.reads_only /\ io'.op = "read" /\ Read(amount))
          => LET left == len(chunk) - tell(chunk)
                 n == IF amount = None THEN left ELSE Min(amount[1], left)
             IN  /\ tell(chunk') = tell(chunk) + n
                 /\ io'.out = io.out \o SubSeq(Window(chunk), tell(chunk) + 1,
                                              tell(chunk) + n)
                 /\ left = 0 => io'.out = io.out

\* C16: the length of the stream is min(chunk_size, full_file_size - start) and
\* never changes; from a fresh stream, successive reads, with or without an
\* amount, return consecutive pieces of the source bytes of the window, each
\* read(amount) min(amount, window size - cursor) bytes long, and a read after
\* the window is exhausted returns nothing.
C16_WindowContents == []C16_Contents /\ [][C16_Read]_vars
\* a window strictly inside the file was read to its end, and the last read,
\* made after that, returned nothing
C16_Witness ==
    /\ io.op = "read" /\ io.reads_only
    /\ chunk.start_byte > 0
    /\ chunk.full > chunk.start_byte + chunk.size
    /\ len(chunk) >= 1
    /\ io.out = Window(chunk)
    /\ chunk.callbacks >= 1 /\ io.always
    /\ io.log = <<>>

\* C17 (as claimed): after any sequence of read and seek calls,
\* 0 <= tell() <= len(stream).
C17_CursorInvariant == 0 <= tell(chunk) /\ tell(chunk) <= len(chunk)

TrustedCall ==
    \/ \E amount \in CountedAmounts : Read(amount)
    \/ \E where \in Offsets : 0 <= where /\ where <= len(chunk) /\ Seek(where)
    \/ EnableCallback
    \/ DisableCallback
\* C17 (amended): the cursor is within [0, len(stream)] after construction, and
\* a read of an omitted or non-negative amount, or a seek to an offset within
\* [0, len(stream)], made with the cursor within these limits leaves it within
\* them.
C17_CursorWithinForTrustedCalls ==
    /\ C17_CursorInvariant
    /\ [][(C17_CursorInvariant /\ TrustedCall) => C17_CursorInvariant']_vars
\* after a seek, a read has brought the cursor exactly to the end of the window
C17_Witness ==
    /\ io.op = "read" /\ ~io.reads_only
    /\ chunk.callbacks >= 1 /\ chunk.callbacks_enabled /\ io.log # <<>>
    /\ tell(chunk) = len(chunk)
    /\ chunk.full > chunk.start_byte + chunk.size

\* test_callback_will_also_be_triggered_by_seek: the byte counts one callback
\* is given by read 2, seek 0, read 2, seek 1, read 2 on a window of 3 bytes
SeekScenario ==
    LET c0 == NewChunk(MaxFile, 0, 3, 1, TRUE)
        r1 == read(c0, <<2>>)
        r2 == seek(r1.chunk, 0)
        r3 == read(r2.chunk, <<2>>)
        r4 == seek(r3.chunk, 1)
        r5 == read(r4.chunk, <<2>>)
        all == r1.log \o r2.log \o r3.log \o r4.log \o r5.log
    IN  [i \in DOMAIN all |-> all[i][2]]

\* C18: a seek with callbacks enabled gives every callback the signed delta
\* offset - cursor, calls none when the offset is the cursor, and then the
\* cursor is the offset; read 2, seek 0, read 2, seek 1, read 2 on a 3-byte
\* window delivers [2, -2, 2, -1, 2].
C18_SeekDelta ==
    /\ SeekScenario = <<2, -2, 2, -1, 2>>
    /\ [][\A where \in Offsets :
            (chunk.callbacks_enabled /\ io'.op = "seek" /\ Seek(where))
            => /\ io'.log = Expected(chunk.callbacks, where - tell(chunk))
               /\ tell(chunk') = where]_vars
\* a backward seek has given both callbacks a negative count
C18_Witness ==
    /\ io.op = "seek" /\ chunk.callbacks_enabled
    /\ chunk.callbacks >= 2
    /\ Len(io.log) = chunk.callbacks
    /\ io.log[1][2] < 0 /\ io.log[2][2] = io.log[1][2]

\* C19: while the callbacks have been enabled since construction, the sum of
\* the byte counts given to each registered callback is tell().
C19_ProgressAccounting ==
    io.always => \A i \in 1..chunk.callbacks : io.sums[i] = tell(chunk)
\* a re-read after a rewind: the total is still the cursor
C19_Witness ==
    /\ io.always /\ chunk.callbacks >= 2
    /\ io.op = "read" /\ ~io.reads_only /\ io.log # <<>>
    /\ tell(chunk) >= 2 /\ tell(chunk) <= len(chunk)
    /\ io.sums[1] = tell(chunk) /\ io.sums[2] = tell(chunk)

\* C20: invoke_progress_callbacks, and every read with callbacks enabled, calls
\* each registered callback exactly once, in registration order, with the byte
\* count when it is not zero, negative included, and calls none when it is
\* zero.
C20_CallbackDispatch ==
    /\ \A callbacks \in 0..MaxCallbacks, n \in Offsets :
          LET log == invoke_progress_callbacks(callbacks, n) IN
          /\ Len(log) = IF n = 0 THEN 0 ELSE callbacks
          /\ \A i \in 1..Len(log) : log[i] = <<i, n>>
    /\ [][\A amount \in Amounts :
            (chunk.callbacks_enabled /\ io'.op = "read" /\ Read(amount))
            => io'.log = Expected(chunk.callbacks, tell(chunk') - tell(chunk))]_vars
\* a read has called the callbacks in order, once each, with what it returned
C20_Witness ==
    /\ io.op = "read" /\ chunk.callbacks_enabled
    /\ chunk.callbacks = MaxCallbacks
    /\ Len(io.log) = MaxCallbacks
    /\ \A i \in 1..MaxCallbacks : io.log[i][1] = i /\ io.log[i][2] > 0

\* the chunk with its callbacks switched on or off, all else the same
WithCallbacks(c, enabled) == [c EXCEPT !.callbacks_enabled = enabled]

\* C21: with callbacks disabled, read and seek call no callback, return the
\* same bytes and move the cursor and the file position as they do with
\* callbacks enabled; enable_callback and disable_callback change the enabled
\* flag and nothing else.
C21_CallbackToggling ==
    [][/\ \A amount \in Amounts :
            (~chunk.callbacks_enabled /\ io'.op = "read" /\ Read(amount))
            => LET e == read(WithCallbacks(chunk, TRUE), amount) IN
               /\ io'.log = <<>>
               /\ read(chunk, amount).data = e.data
               /\ chunk' = WithCallbacks(e.chunk, FALSE)
       /\ \A where \in Offsets :
            (~chunk.callbacks_enabled /\ io'.op = "seek" /\ Seek(where))
            => /\ io'.log = <<>>
               /\ chunk' = WithCallbacks(seek(WithCallbacks(chunk, TRUE), where).chunk,
                                         FALSE)
       /\ (io'.op = "enable_callback" /\ EnableCallback)
            => chunk' = WithCallbacks(chunk, TRUE)
       /\ (io'.op = "disable_callback" /\ DisableCallback)
            => chunk' = WithCallbacks(chunk, FALSE)]_vars
\* a read with the callbacks switched off has moved the cursor and called none
C21_Witness ==
    /\ io.op = "read" /\ ~chunk.callbacks_enabled
    /\ chunk.callbacks >= 1
    /\ tell(chunk) >= 1 /\ tell(chunk) <= len(chunk)
    /\ io.log = <<>>

\* read(); seek(0); read() on a fresh chunk: the two pieces returned
RewindScenario(full, start_byte, chunk_size) ==
    LET c0 == NewChunk(full, start_byte, chunk_size, 1, TRUE)
        r1 == read(c0, None)
        r2 == seek(r1.chunk, 0)
        r3 == read(r2.chunk, None)
    IN  <<r1.data, r3.data, Window(c0)>>

\* C22: seek(p) with 0 <= p <= window size makes tell() = p, whatever was read
\* before, and the read() that follows returns the bytes of the window from
\* relative offset p to its end; read(); seek(0); read() returns the same bytes
\* twice.
C22_RewindRoundTrip ==
    /\ \A full \in 0..MaxFile, chunk_size \in 0..MaxFile :
          \A start_byte \in 0..full :
             LET r == RewindScenario(full, start_byte, chunk_size) IN
             r[1] = r[3] /\ r[2] = r[3]
    /\ [][/\ \A p \in Offsets :
               (0 <= p /\ p <= len(chunk) /\ io'.op = "seek" /\ Seek(p))
               => tell(chunk') = p
          /\ (/\ io.op = "seek"
              /\ 0 <= tell(chunk) /\ tell(chunk) <= len(chunk)
              /\ io'.op = "read" /\ Read(None))
             => /\ read(chunk, None).data
                     = SubSeq(Window(chunk), tell(chunk) + 1, len(chunk))
                /\ tell(chunk') = len(chunk)]_vars
\* a seek into the middle of a window that does not start the file
C22_Witness ==
    /\ io.op = "seek" /\ ~io.reads_only
    /\ chunk.start_byte > 0
    /\ 0 < tell(chunk) /\ tell(chunk) < len(chunk)
    /\ chunk.pos = chunk.start_byte + tell(chunk)

\* ---- DeferredOpenFile ----
\* C23: construction, tell() and close() never call the open method; the first
\* read, seek or context-manager entry calls it exactly once and seeks to
\* start_byte; over any sequence of calls it is called at most once, also not
\* again after close.
C23_OpensLazilyOnce ==
    /\ [](/\ deferred.opens <= 1
          /\ deferred.fileobj = "None" <=> deferred.opens = 0)
    /\ [][/\ deferred'.op \in {"tell", "tell raises", "close"}
             => deferred'.opens = deferred.opens
          /\ (/\ deferred.fileobj = "None"
              /\ deferred'.op \in {"read", "seek", "seek raises", "enter"})
             => /\ deferred'.opens = 1
                /\ deferred'.op = "enter" => deferred'.pos = deferred.start_byte
                /\ deferred'.op = "read" => deferred'.from = deferred.start_byte]_vars
\* a read after close was refused and did not open the file again
C23_Witness ==
    /\ deferred.op = "read raises"
    /\ deferred.fileobj = "closed"
    /\ deferred.opens = 1

\* C24: tell() returns start_byte while the file has not been opened and the
\* handle's position afterwards; what it returns before the first opening call
\* is the position the first read starts from; after seek(p), tell() is p.
C24_TellAcrossOpen ==
    [][/\ deferred'.op = "tell"
          => deferred'.ret = IF deferred.opens = 0 THEN deferred.start_byte
                                                   ELSE deferred.pos
       /\ (deferred.opens = 0 /\ deferred'.op = "read")
          => deferred'.from = deferred_tell(deferred)
       /\ \A p \in Offsets :
             (deferred'.op = "seek" /\ DeferredSeek(p))
             => deferred_tell(deferred') = p]_vars
\* a read that started at a start_byte above 0 and returned bytes
C24_Witness ==
    /\ deferred.op = "read"
    /\ deferred.start_byte >= 1
    /\ deferred.from = deferred.start_byte
    /\ deferred.ret >= 1

\* C25 (as claimed): whenever the handle is present, after any reads and seeks,
\* its position is at or beyond start_byte.
C25_PositionInvariant ==
    deferred.fileobj # "None" => deferred.pos >= deferred.start_byte

TrustedDeferredCall ==
    \/ \E amount \in Amounts : DeferredRead(amount)
    \/ \E where \in Offsets : where >= deferred.start_byte /\ DeferredSeek(where)
    \/ DeferredTell
    \/ DeferredClose
    \/ DeferredEnter
    \/ DeferredExit
\* C25 (amended): the handle's position is at or beyond start_byte when the
\* file is opened, and stays so over reads and over seeks to positions at or
\* beyond start_byte.
C25_PositionKeptByForwardSeeks ==
    /\ C25_PositionInvariant
    /\ [][(C25_PositionInvariant /\ TrustedDeferredCall)
            => C25_PositionInvariant']_vars
\* a seek has moved the open handle beyond a start_byte above 0
C25_Witness ==
    /\ deferred.op = "seek"
    /\ deferred.fileobj = "open"
    /\ deferred.start_byte >= 1
    /\ deferred.pos > deferred.start_byte

\* ---- SlidingWindowSemaphore, continued ----
\* C26 (as claimed): a release notifies the condition variable once for every
\* unit it frees, the in-order unit and each unit of the cascade, and not at
\* all when it frees none.
C26_NotifyPerUnit ==
    [][last'.op = "release" => last'.notifies = last'.freed]_vars

\* the parts of C27: the lowest unreleased number of a tag never decreases and
\* moves only in a release call that names it
C27_MovesByItsRelease ==
    \A tag \in Tags :
        /\ Get(lowest_sequence', tag, 0) >= Get(lowest_sequence, tag, 0)
        /\ Get(lowest_sequence', tag, 0) > Get(lowest_sequence, tag, 0)
           => IsRelease(last', tag, Get(lowest_sequence, tag, 0))
\* every number below it was issued by acquire and passed to a release call
C27_AllBelowCompleted ==
    \A tag \in DOMAIN lowest_sequence :
        \A n \in 0..(lowest_sequence[tag] - 1) :
            /\ n \in Range(issued[tag])
            /\ <<tag, n>> \in released

\* C27 (as claimed): for every tag the lowest unreleased number never decreases,
\* advances only by a release of exactly that number or by the cascade over
\* numbers already released, and every number below it has been issued by
\* acquire and passed to a release call.
C27_Watermark == []C27_AllBelowCompleted /\ [][C27_MovesByItsRelease]_vars
C27_SoundParts == [][C27_MovesByItsRelease]_vars

\* C28 (as claimed): the pending-release lists of all tags hold at most the
\* initial count of entries in all, every entry of a tag's list lies strictly
\* between the tag's lowest unreleased and next numbers, and no number is
\* twice in a list.
C28_PendingBound ==
    /\ SumOver(DOMAIN pending_release,
               [tag \in DOMAIN pending_release |-> Len(pending_release[tag])])
         <= initial
    /\ \A tag \in DOMAIN pending_release :
          LET q == pending_release[tag] IN
          /\ \A i \in 1..Len(q) :
                lowest_sequence[tag] < q[i] /\ q[i] < tag_sequences[tag]
          /\ \A i, k \in 1..Len(q) : i # k => q[i] # q[k]

\* C29: the count is never negative; it goes down only by one, from a count
\* above 0, in an acquire that issues one number; and a thread woken at count 0
\* goes back to waiting and takes nothing.
C29_RaceFree ==
    /\ [](count >= 0)
    /\ [][/\ count' < count
             => /\ count > 0 /\ count' = count - 1
                /\ last'.op = "acquire" /\ last'.outcome = "ok"
                /\ \A tag \in Tags :
                      Len(issued'[tag])
                        = Len(issued[tag]) + (IF tag = last'.tag THEN 1 ELSE 0)
          /\ \A t \in Threads :
                (pc[t] = "notified" /\ count = 0 /\ pc'[t] # "notified")
                => /\ pc'[t] = "waiting"
                   /\ UNCHANGED <<gate, issued, held>>]_vars
\* a woken thread found the freed unit taken and went back to waiting, while
\* another thread is suspended as well
C29_Witness ==
    /\ last.op = "resume" /\ last.outcome = "wait"
    /\ count = 0
    /\ released # {}
    /\ Cardinality(held) = 1
    /\ Cardinality({t \in Threads : pc[t] = "waiting"}) >= 2

\* C30 (as claimed): after any sequence of acquire and release calls, release
\* calls with arbitrary numbers included, the count is at most the initial
\* count.
C30_CountUpperBound == count <= initial

\* what the semaphore keeps for one tag: next number, lowest unreleased number
\* and pending-release list, each with whether the dict has the tag
OfTag(ts, ls, pr, tag) ==
    <<tag \in DOMAIN ts, Get(ts, tag, 0),
      tag \in DOMAIN ls, Get(ls, tag, 0),
      tag \in DOMAIN pr, Get(pr, tag, <<>>)>>

\* C31: a successful acquire on a tag changes only that tag's next number, its
\* lowest unreleased number when it is the tag's first, and the count; a
\* release on a tag changes only that tag's lowest unreleased number and
\* pending-release list and the count; neither changes what is kept for any
\* other tag.
C31_PerTagFrame ==
    [][\A tag \in Tags :
          /\ (last'.op = "acquire" /\ last'.outcome = "ok" /\ last'.tag = tag)
             => /\ pending_release' = pending_release
                /\ tag \in DOMAIN lowest_sequence
                   => lowest_sequence'[tag] = lowest_sequence[tag]
                /\ tag \notin DOMAIN tag_sequences
                   => lowest_sequence'[tag] = 0
          /\ (last'.op = "release" /\ last'.tag = tag)
             => tag_sequences' = tag_sequences
          /\ (last'.op \in {"acquire", "release"} /\ last'.tag = tag)
             => \A o \in Tags \ {tag} :
                   OfTag(tag_sequences', lowest_sequence', pending_release', o)
                     = OfTag(tag_sequences, lowest_sequence, pending_release, o)]_vars
\* an in-order release freed a unit while the other tag has a number
\* outstanding and its lowest unreleased number where it was
C31_Witness ==
    /\ last.op = "release" /\ last.outcome = "ok" /\ last.freed >= 1
    /\ <<last.tag, last.seq>> \in released
    /\ \E o \in Tags \ {last.tag} :
          /\ <<o, 0>> \in held
          /\ o \in DOMAIN lowest_sequence /\ lowest_sequence[o] = 0
          /\ tag_sequences[o] = 1

\* C32: with the cursor at or after the start of the window (every seek so far
\* to an offset >= 0), a read with any amount or none returns at most
\* max(0, size - cursor) bytes, none of them at an offset of the file at or
\* after start_byte + size; at or after the end of the window it returns
\* nothing.
C32_NeverPastWindow ==
    [][\A amount \in Amounts :
          (chunk.amount_read >= 0 /\ io'.op = "read" /\ Read(amount))
          => LET data == read(chunk, amount).data
                 left == IF len(chunk) > tell(chunk)
                         THEN len(chunk) - tell(chunk) ELSE 0
             IN  /\ Len(data) <= left
                 /\ \A i \in DOMAIN data :
                       data[i] < chunk.start_byte + len(chunk)]_vars

\* C33: constructing a chunk over an unopened lazy handle leaves the file
\* unopened and takes the handle's start_byte as the start of the window; the
\* file is opened once, by a read or a seek of the chunk and by nothing else,
\* and a read that opens it returns the bytes of the file from start_byte on.
C33_LazyComposition ==
    /\ [](chunk # NoChunk => chunk.start_byte = deferred.start_byte)
    /\ [][/\ (chunk = NoChunk /\ chunk' # NoChunk)
             => deferred'.fileobj = "None" /\ deferred'.opens = 0
          /\ deferred'.opens # deferred.opens
             => /\ deferred.fileobj = "None" /\ deferred'.opens = 1
                /\ io'.op \in {"read", "read raises", "seek", "seek raises"}
          /\ (chunk # NoChunk /\ deferred.fileobj = "None" /\ io'.op = "read")
             => /\ deferred'.opens = 1
                /\ deferred'.from = deferred.start_byte
                /\ io.reads_only /\ io'.reads_only
                   => io'.out = [i \in 1..deferred'.ret |->
                                    deferred.start_byte + i - 1]]_vars
\* the first call on the chunk was a read, which opened the file and returned
\* bytes from a start_byte after the beginning of the file
C33_Witness ==
    /\ chunk # NoChunk
    /\ io.op = "read" /\ io.reads_only
    /\ deferred.opens = 1 /\ deferred.fileobj = "open"
    /\ deferred.start_byte >= 1
    /\ deferred.ret >= 1 /\ Len(io.out) = deferred.ret
    /\ io.out[1] = deferred.start_byte
====
